---- MODULE Spec2Model ----
(***************************************************************************)
(* Model of build.py, the Kodi repository builder: main() runs one         *)
(* Generator per release directory; a Generator loads zips/addons.xml,     *)
(* reconciles every package directory against it, writes archives, and     *)
(* persists the catalog and its md5 when something changed.                *)
(***************************************************************************)
EXTENDS Integers, Sequences, FiniteSets, TLC

\* ------------------------------------------------------------------ bounds
MaxRuns   == 2       \* invocations of main() in one behaviour
MaxEdits  == 1       \* edits of package directories between invocations
MaxFaults == 1       \* file-system failures in one behaviour

\* ------------------------------------------------------- the input universe
Releases  == {"omega", "piers"}          \* release directories that exist
Dirs      == {"a", "d2"}                 \* package directories of a release
Excluded  == {"zips", ".git"}            \* the output directory and a hidden directory
AllDirs   == Dirs \cup Excluded          \* release_path.iterdir(), directories only
Ids       == {"a", "b"}                  \* values of the id attribute
Versions  == {"1", "2"}                  \* values of the version attribute
NoAttr    == "<none>"                    \* Element.get() of a missing attribute: None
NoManifest == [kind |-> "nomanifest"]    \* the directory has no addon.xml
Malformed  == [kind |-> "malformed"]     \* addon.xml is not well-formed XML
Manifest(i, v) == [kind |-> "addon", id |-> i, version |-> v]
Manifests == {Manifest("a", "1"), Manifest("a", "2"), Manifest("b", "1"),
              Manifest("a", NoAttr), Manifest(NoAttr, "1")}
DirStates == {NoManifest, Malformed} \cup Manifests

Absent  == "absent"                      \* the file does not exist
Corrupt == "corrupt"                     \* a file left behind by a failed write
NoFile      == [state |-> Absent,  content |-> <<>>]
BrokenFile  == [state |-> Corrupt, content |-> <<>>]
File(c)     == [state |-> "ok",    content |-> c]
IOOutcomes   == {"ok", "openfail", "partial"}   \* of writing a file
CopyOutcomes == {"ok", "openfail"}              \* of shutil.copy and write_text

\* f"{x}" and f"[@id='{x}']" of None print the text None
Str(x) == IF x = NoAttr THEN "None" ELSE x
\* zips/<id>/<id>-<version>.zip
ZipKeys == Ids \X {Str(v) : v \in Versions \cup {NoAttr}}

VARIABLES
    pkgs,       \* pkgs[r][d]: what package directory d in Dirs of release r holds
    catFile,    \* catFile[r]: zips/addons.xml (Absent, Corrupt or the entries)
    md5File,    \* md5File[r]: zips/addons.xml.md5 (Absent, Corrupt or a digest)
    zips,       \* zips[r][k]: zips/<id>/<id>-<version>.zip (Absent, Corrupt or the directory it was built from)
    published,  \* published[r][i]: zips/<id>/addon.xml (Absent, Corrupt or the directory it was copied from)
    pc,         \* position of the process
    force,      \* args.force
    dirs,       \* main: the filtered list of release directories
    idx,        \* main: position in dirs
    root,       \* _generate_addons_xml: the in-memory catalog
    changed,    \* _generate_addons_xml: the dirty flag
    found_ids,  \* _generate_addons_xml: ids seen
    remaining,  \* package directories the for loop has not reached yet
    hist,       \* bookkeeping of the current Generator run
    mainHist,   \* bookkeeping of the current main() invocation
    runs, edits, faults \* counters for the bounds

vars == <<pkgs, catFile, md5File, zips, published, pc, force, dirs, idx, root, changed,
          found_ids, remaining, hist, mainHist, runs, edits, faults>>

\* ------------------------------------------------------------ pure helpers
\* ordinal order of the strings used as sort keys ("" sorts first)
Rank(s) == CASE s = "" -> 0 [] s = "a" -> 1 [] s = "b" -> 2 [] OTHER -> 3

\* key=lambda child: child.get("id") or ""
SortKey(e) == IF e.id = NoAttr THEN "" ELSE e.id

RECURSIVE InsertSorted(_, _)
\* stable insertion: e goes after every element whose key is <= its key
InsertSorted(s, e) ==
    IF s = <<>> THEN <<e>>
    ELSE IF Rank(SortKey(Head(s))) <= Rank(SortKey(e))
         THEN <<Head(s)>> \o InsertSorted(Tail(s), e)
         ELSE <<e>> \o s

RECURSIVE SortById(_)
\* sorted(root, key=...): a stable sort
SortById(s) ==
    IF s = <<>> THEN <<>>
    ELSE InsertSorted(SortById(SubSeq(s, 1, Len(s) - 1)), s[Len(s)])

\* root.find(f"./addon[@id='{addon_id}']"): index of the first match, 0 if none
Find(r, addon_id) ==
    LET hits == {i \in 1..Len(r) : r[i].id = Str(addon_id)}
    IN  IF hits = {} THEN 0 ELSE CHOOSE i \in hits : \A j \in hits : i <= j

\* mutant: the prior entry is not removed
Remove_Kept(r, i) == r

\* root.remove(existing)
Remove(r, i) == IF i = 0 THEN r ELSE SubSeq(r, 1, i - 1) \o SubSeq(r, i + 1, Len(r))

\* the serialized bytes of one entry and hashlib.md5 of the document, 16 bits kept
EntryCode(e) ==
    (CASE e.id = NoAttr -> 0 [] e.id = "a" -> 1 [] OTHER -> 2) * 3
  + (CASE e.version = NoAttr -> 0 [] e.version = "1" -> 1 [] OTHER -> 2) + 1

RECURSIVE Digest(_)
Digest(s) ==
    IF s = <<>> THEN 7
    ELSE (Digest(SubSeq(s, 1, Len(s) - 1)) * 31 + EntryCode(s[Len(s)])) % 65536

\* mutant: the force flag is tested the wrong way round
SkipTest_ForceInverted(r, m, f) ==
    LET existing == Find(r, m.id)
    IN  existing # 0 /\ r[existing].version = m.version /\ f

\* mutant: the force flag is not tested
SkipTest_NoForce(r, m, f) ==
    LET existing == Find(r, m.id)
    IN  existing # 0 /\ r[existing].version = m.version

\* the test of lines 143-147: the entry exists, its version is the same, no force
SkipTest(r, m, f) ==
    LET existing == Find(r, m.id)
    IN  existing # 0 /\ r[existing].version = m.version /\ ~f

\* the decision of the reconciler for manifest m against catalog r
Decision(r, m, f) ==
    IF SkipTest(r, m, f) THEN "Skip"
    ELSE IF Find(r, m.id) # 0 THEN "Replace" ELSE "Insert"

\* ------------------------------------------------------- files and archives
\* Path(release_dir).parts: omega is given as "omega", piers as "venv/piers"
ReleasePath(r) == IF r = "piers" THEN <<"venv", "piers">> ELSE <<r>>

\* what a package directory holds, as paths relative to it
PackageFiles == {<<"addon.xml">>, <<"icon.png">>, <<"lib", "main.py">>,
                 <<"lib", "main.pyc">>, <<"lib", "__pycache__", "main.pyo">>,
                 <<".git", "config">>, <<"lib", "venv", "x.py">>, <<"thumbs.db">>,
                 <<"resources", "screenshot.jpg">>}

IGNORE_PATTERNS == {".git", ".github", ".gitignore", ".DS_Store", "thumbs.db",
                    ".idea", "venv", "__pycache__", "*.pyc", "*.pyo"}

\* the suffix of a file name
Suffix(name) == CASE name = "main.pyc" -> ".pyc"
                  [] name = "main.pyo" -> ".pyo"
                  [] name \in {"main.py", "x.py"} -> ".py"
                  [] name = "addon.xml" -> ".xml"
                  [] name = "icon.png" -> ".png"
                  [] name = "thumbs.db" -> ".db"
                  [] OTHER -> ""

\* fnmatch of one path segment against one pattern
Glob(name, pattern) ==
    CASE pattern = "*.pyc" -> Suffix(name) = ".pyc"
      [] pattern = "*.pyo" -> Suffix(name) = ".pyo"
      [] OTHER -> name = pattern

\* _clean_binaries: __pycache__ directories and .pyc/.pyo files are deleted
clean_binaries(files) ==
    {f \in files : /\ \A i \in 1..Len(f) : f[i] # "__pycache__"
                   /\ Suffix(f[Len(f)]) \notin {".pyc", ".pyo"}}

\* the files of a package directory at the time the archives are built
CleanFiles == clean_binaries(PackageFiles)

\* _should_ignore(path): pattern in path.parts or path.match(pattern)
should_ignore(path) ==
    \E pattern \in IGNORE_PATTERNS :
        \/ \E i \in 1..Len(path) : path[i] = pattern
        \/ Glob(path[Len(path)], pattern)

\* file_path.relative_to(addon_path.parent) (line 79)
archive_name(d, f) == <<d>> \o f

\* the entries _create_zip writes for package directory d of release r
\* (lines 76-80): rglob under release_path / d, _should_ignore of the full path
archive_entries(r, d) ==
    {archive_name(d, f) :
        f \in {g \in CleanFiles :
                  ~should_ignore(ReleasePath(r) \o <<d>> \o g)}}

\* --------------------------------------------------------------- Generator
\* mutant: an existing archive is skipped only under force
skip_existing_Inverted(zs, k, f) == zs[k] # Absent /\ f

\* zip_file.exists() and not self.force (line 72)
skip_existing(zs, k, f) == zs[k] # Absent /\ ~f

\* _create_zip(addon_path, addon_id, version); io is what the file system does
\* to the write.  Result: the archives, whether it raised, whether it wrote.
create_zip(zs, d, addon_id, version, f, io) ==
    IF addon_id = NoAttr
    THEN [zips |-> zs, raised |-> TRUE, wrote |-> FALSE, skipped |-> FALSE]  \* zips_path / None
    ELSE LET k == <<addon_id, Str(version)>>
         IN  IF skip_existing(zs, k, f)
             THEN [zips |-> zs, raised |-> FALSE, wrote |-> FALSE, skipped |-> TRUE]
             ELSE CASE io = "ok" ->
                         [zips |-> [zs EXCEPT ![k] = d], raised |-> FALSE,
                          wrote |-> TRUE, skipped |-> FALSE]
                    [] io = "openfail" ->
                         [zips |-> zs, raised |-> TRUE, wrote |-> FALSE, skipped |-> FALSE]
                    [] OTHER ->
                         [zips |-> [zs EXCEPT ![k] = Corrupt], raised |-> TRUE,
                          wrote |-> TRUE, skipped |-> FALSE]

\* the text of the children of <assets> in the metadata extension of the
\* manifest of directory d, in document order; fanart.jpg is not in the directory
declared_assets(d) == << <<"icon.png">>, <<"fanart.jpg">>, <<"resources", "screenshot.jpg">> >>

\* mutant: the manifest goes last
asset_list_ManifestLast(d) == declared_assets(d) \o << <<"addon.xml">> >>

\* assets = ["addon.xml"]; assets.extend(...) (lines 89-99)
asset_list(d) == << <<"addon.xml">> >> \o declared_assets(d)

\* mutant: the source is copied without looking for it
src_exists_Unchecked(asset) == TRUE

\* src.exists() (line 103)
src_exists(asset) == asset \in CleanFiles

\* the loop of lines 101-107 over the assets of directory d when the file system
\* fails nothing: the sources copied, in order, up to the first that raises
copy_loop ==
    [d \in AllDirs |->
        LET todo  == SelectSeq(asset_list(d), src_exists)
            gone  == {i \in 1..Len(todo) : todo[i] \notin CleanFiles}
            upto  == IF gone = {} THEN Len(todo)
                     ELSE (CHOOSE i \in gone : \A j \in gone : i <= j) - 1
            done  == SubSeq(todo, 1, upto)
        IN  [done |-> done, raised |-> gone # {},
             manifest |-> \E i \in 1..Len(done) : done[i] = <<"addon.xml">>]]

\* _copy_assets(addon_path, addon_xml_root): the loop of lines 101-107; io is what
\* the file system does to the first copy; shutil.copy of a missing source raises.
\* Result: zips/<id>/addon.xml, whether it raised, the sources copied in order.
copy_assets(pb, d, addon_id, io) ==
    IF io # "ok"
    THEN [published |-> pb, raised |-> TRUE, copied |-> <<>>]
    ELSE LET plan == copy_loop[d]
         IN  [published |-> IF plan.manifest THEN [pb EXCEPT ![addon_id] = d] ELSE pb,
              raised |-> plan.raised, copied |-> plan.done]

\* mutant: changed = True sits outside the branch
dirty_Always(ch, decision, raised) == TRUE

\* changed = True (line 157) is reached when neither call raised
dirty(ch, decision, raised) ==
    IF decision \in {"Insert", "Replace"} /\ ~raised THEN TRUE ELSE ch

\* the body of the for loop for one package directory with a manifest
\* (lines 133-160): what it leaves behind
process_addon(rt, zs, pb, ch, d, m, f, zipIO, assetIO) ==
    LET same == [root |-> rt, zips |-> zs, published |-> pb, changed |-> ch,
                 decision |-> "none", raised |-> FALSE, zipCalled |-> FALSE,
                 zipWrote |-> FALSE, zipSkipped |-> FALSE, assetsCalled |-> FALSE,
                 copied |-> <<>>]
    IN
    IF m.kind # "addon"
    THEN [same EXCEPT !.raised = TRUE]                         \* ET.parse raises
    ELSE
    LET existing == Find(rt, m.id)
        dec      == Decision(rt, m, f)
    IN
    IF SkipTest(rt, m, f)
    THEN [same EXCEPT !.decision = dec,                        \* continue
                      !.changed = dirty(ch, dec, FALSE)]
    ELSE
    LET rt2 == Append(Remove(rt, existing), [id |-> m.id, version |-> m.version])
        z   == create_zip(zs, d, m.id, m.version, f, zipIO)
    IN
    IF z.raised
    THEN [same EXCEPT !.root = rt2, !.zips = z.zips, !.decision = dec,
                      !.changed = dirty(ch, dec, TRUE),
                      !.raised = TRUE, !.zipCalled = TRUE, !.zipWrote = z.wrote]
    ELSE
    LET a == copy_assets(pb, d, m.id, assetIO)
    IN  [root |-> rt2, zips |-> z.zips, published |-> a.published,
         changed |-> dirty(ch, dec, a.raised),
         decision |-> dec, raised |-> a.raised, zipCalled |-> TRUE,
         zipWrote |-> z.wrote, zipSkipped |-> z.skipped, assetsCalled |-> TRUE,
         copied |-> a.copied]

\* mutant: the exception is not caught
after_package_Uncaught(raised) == IF raised THEN "raised" ELSE "scan"

\* except Exception (lines 159-160): print, and the loop goes on
after_package(raised) == "scan"

\* mutant: the digest is taken of the document without its last entry
md5_input_Short(f) == SubSeq(f.content, 1, Len(f.content) - 1)

\* xml_path.read_bytes() (line 176): the bytes the digest is taken of
md5_input(f) == f.content

\* zips and .git each hold an addon.xml of their own
ExcludedHolds(d) == IF d = "zips" THEN Manifest("b", "2") ELSE Manifest("b", "1")

\* what directory d of a release holds, ps being its package directories
dir_content(ps, d) == IF d \in Excluded THEN ExcludedHolds(d) ELSE ps[d]

\* d.name.startswith(".")
Hidden(d) == d \in {".git"}

\* mutant: every subdirectory is a candidate
Scanned_All(r) == AllDirs

\* directories the for loop visits: d.is_dir() and d.name != "zips" and not hidden
Scanned(r) == {d \in AllDirs : d # "zips" /\ ~Hidden(d)}

\* mutant: the manifest is parsed without looking for it
has_manifest_Unchecked(m) == TRUE

\* xml_file.exists() (line 130)
has_manifest(m) == m.kind # "nomanifest"

\* what is known of the run before this one: the release it completed and
\* whether the processing of a package raised after an Insert or Replace decision;
\* rel is "" when that run did not complete or a package was edited since
NoPrev == [rel |-> "", failed |-> FALSE]

\* the summary a completed run leaves for the next one
Summary(h) == [rel |-> h.rel,
               failed |-> {d \in h.raised : h.decided[d] \in {"Insert", "Replace"}} # {}]

NoHist == [rel |-> "", state |-> "none", prev |-> NoPrev,
           startCat |-> NoFile, startMd5 |-> NoFile,
           startZips |-> [k \in ZipKeys |-> Absent],
           decided |-> [d \in AllDirs |-> "none"], raised |-> {},
           zipCalls |-> {}, zipWrites |-> {}, zipSkips |-> {},
           assetCalls |-> {}, assetFaults |-> {},
           copied |-> <<>>,
           sameVersion |-> {}, order |-> <<>>, log |-> <<>>]

Init ==
    /\ \E m \in Manifests :
          pkgs = [r \in Releases |-> [d \in Dirs |->
                     IF d = "a" THEN (IF r = "omega" THEN m ELSE Manifest("a", "1"))
                     ELSE NoManifest]]
    /\ catFile   = [r \in Releases |-> NoFile]
    /\ md5File   = [r \in Releases |-> NoFile]
    /\ zips      = [r \in Releases |-> [k \in ZipKeys |-> Absent]]
    /\ published = [r \in Releases |-> [i \in Ids |-> Absent]]
    /\ pc = "idle"
    /\ force = FALSE
    /\ dirs = <<>>
    /\ idx = 0
    /\ root = <<>>
    /\ changed = FALSE
    /\ found_ids = {}
    /\ remaining = {}
    /\ hist = NoHist
    /\ mainHist = [exit |-> "none", started |-> {}, prev |-> NoPrev]
    /\ runs = 0
    /\ edits = 0
    /\ faults = 0

\* ------------------------------------------------------------- environment
\* between two invocations somebody changes a package directory of omega
EditPackage(d, m) ==
    /\ pc = "idle"
    /\ edits < MaxEdits
    /\ runs < MaxRuns                 \* an edit no run will see is not explored
    /\ pkgs["omega"][d] # m
    /\ pkgs' = [pkgs EXCEPT !["omega"][d] = m]
    /\ edits' = edits + 1
    /\ mainHist' = [mainHist EXCEPT !.prev = NoPrev]
    /\ UNCHANGED <<catFile, md5File, zips, published, pc, force, dirs, idx, root,
                   changed, found_ids, remaining, hist, runs, faults>>

\* -------------------------------------------------------------------- main
\* main(): parse the arguments, keep the release directories that exist
main(releases, f) ==
    /\ pc = "idle"
    /\ runs < MaxRuns
    /\ runs' = runs + 1
    /\ force' = f
    /\ dirs' = SelectSeq(releases, LAMBDA r : r \in Releases)
    /\ idx' = 1
    /\ pc' = IF dirs' = <<>> THEN "end" ELSE "gen"     \* "No valid release directories"
    /\ mainHist' = [exit |-> IF dirs' = <<>> THEN "ok" ELSE "running", started |-> {},
                    prev |-> mainHist.prev]
    /\ UNCHANGED <<pkgs, catFile, md5File, zips, published, root, changed,
                   found_ids, remaining, hist, edits, faults>>

\* an exception leaves Generator.__init__ and main(): the process ends
Abort(where) ==
    /\ pc' = "raised"
    /\ hist' = [hist EXCEPT !.state = where]
    /\ mainHist' = [mainHist EXCEPT !.exit = "raised"]

\* mutant: the catalog is always started anew
load_root_Fresh(f) == <<>>

\* lines 113-118: the root of the parsed addons.xml, or a new empty <addons>
load_root(f) == IF f.state = Absent THEN <<>> ELSE f.content

\* Generator.__init__ up to the for loop: mkdir zips, load or create the catalog
LoadCatalog ==
    /\ pc = "gen"
    /\ LET r == dirs[idx]
           h == [NoHist EXCEPT !.rel = r, !.state = "running",
                               !.startCat = catFile[r], !.startMd5 = md5File[r],
                               !.startZips = zips[r], !.log = <<"load">>,
                               !.prev = mainHist.prev]
       IN  IF catFile[r].state = Corrupt
           THEN /\ pc' = "raised"                             \* ET.parse raises
                /\ hist' = [h EXCEPT !.state = "load-failed"]
                /\ mainHist' = [exit |-> "raised", started |-> mainHist.started \cup {r},
                                prev |-> NoPrev]
                /\ UNCHANGED <<root, changed, found_ids, remaining>>
           ELSE /\ pc' = "scan"
                /\ hist' = h
                /\ mainHist' = [mainHist EXCEPT !.started = @ \cup {r}, !.prev = NoPrev]
                /\ root' = load_root(catFile[r])
                /\ changed' = FALSE
                /\ found_ids' = {}
                /\ remaining' = Scanned(r)
    /\ UNCHANGED <<pkgs, catFile, md5File, zips, published, force, dirs, idx,
                   runs, edits, faults>>

\* one iteration of the for loop over the package directories
ProcessPackage(d, zipIO, assetIO) ==
    /\ pc = "scan"
    /\ d \in remaining
    /\ remaining' = remaining \ {d}
    /\ LET r == hist.rel
           m == dir_content(pkgs[r], d)
       IN  IF ~has_manifest(m)
           THEN /\ zipIO = "ok" /\ assetIO = "ok"
                /\ hist' = [hist EXCEPT !.decided[d] = "nomanifest",
                                         !.order = Append(@, d), !.copied = <<>>]
                /\ UNCHANGED <<root, zips, published, changed, found_ids, faults>>
           ELSE LET n == (IF zipIO # "ok" THEN 1 ELSE 0) + (IF assetIO # "ok" THEN 1 ELSE 0)
                IN  /\ faults + n <= MaxFaults
                    /\ faults' = faults + n
                    \* a failure is injected only where the write is reached
                    /\ n > 0 =>
                         \E ok \in {process_addon(root, zips[r], published[r], changed,
                                                  d, m, force, "ok", "ok")} :
                             /\ zipIO # "ok" => ok.zipWrote
                             /\ assetIO # "ok" => ok.assetsCalled /\ zipIO = "ok"
                    /\ \E o \in {process_addon(root, zips[r], published[r], changed,
                                                d, m, force, zipIO, assetIO)} :
                         /\ root' = o.root
                         /\ zips' = [zips EXCEPT ![r] = o.zips]
                         /\ published' = [published EXCEPT ![r] = o.published]
                         /\ changed' = o.changed
                         /\ found_ids' = IF m.kind = "addon" THEN found_ids \cup {m.id}
                                         ELSE found_ids
                         /\ hist' = [hist EXCEPT
                               !.decided[d] = o.decision,
                               !.raised = IF o.raised THEN @ \cup {d} ELSE @,
                               !.zipCalls = IF o.zipCalled THEN @ \cup {d} ELSE @,
                               !.zipWrites = IF o.zipWrote THEN @ \cup {d} ELSE @,
                               !.zipSkips = IF o.zipSkipped THEN @ \cup {d} ELSE @,
                               !.assetCalls = IF o.assetsCalled THEN @ \cup {d} ELSE @,
                               !.assetFaults = IF assetIO # "ok" THEN @ \cup {d} ELSE @,
                               !.copied = o.copied,
                               !.sameVersion = IF m.kind = "addon" /\ SkipTest(root, m, FALSE)
                                               THEN @ \cup {d} ELSE @,
                               !.order = Append(@, d),
                               !.log = @ \o (IF o.zipWrote THEN <<"zip">> ELSE <<>>)
                                         \o (IF o.assetsCalled THEN <<"assets">> ELSE <<>>)]
    /\ pc' = after_package(d \in hist'.raised)
    /\ UNCHANGED <<pkgs, catFile, md5File, force, dirs, idx, mainHist, runs, edits>>

\* mutant: the catalog is written from inside the loop
loop_done_Early(rem) == TRUE

\* the for loop of line 124 has visited every directory of its list
loop_done(rem) == rem = {}

\* after the loop: sort and write the catalog if changed (lines 162-170)
Persist(io) ==
    /\ pc = "scan"
    /\ loop_done(remaining)
    /\ LET r == hist.rel
       IN  IF ~changed
           THEN /\ io = "ok"
                /\ pc' = "ret"
                /\ hist' = [hist EXCEPT !.state = "completed"]
                /\ mainHist' = [mainHist EXCEPT !.prev = Summary(hist)]
                /\ UNCHANGED <<root, catFile, faults>>
           ELSE /\ io # "ok" => faults < MaxFaults
                /\ faults' = IF io # "ok" THEN faults + 1 ELSE faults
                /\ root' = SortById(root)
                /\ CASE io = "ok" ->
                          /\ catFile' = [catFile EXCEPT ![r] = File(root')]
                          /\ pc' = "md5"
                          /\ hist' = [hist EXCEPT !.log = Append(@, "catalog")]
                          /\ UNCHANGED mainHist
                     [] io = "openfail" ->
                          /\ Abort("write-failed")
                          /\ UNCHANGED catFile
                     [] OTHER ->
                          /\ Abort("write-failed")
                          /\ catFile' = [catFile EXCEPT ![r] = BrokenFile]
    /\ UNCHANGED <<pkgs, md5File, zips, published, force, dirs, idx, changed,
                   found_ids, remaining, runs, edits>>

\* _generate_md5: digest of the bytes of zips/addons.xml
generate_md5(io) ==
    /\ pc = "md5"
    /\ io # "ok" => faults < MaxFaults
    /\ faults' = IF io # "ok" THEN faults + 1 ELSE faults
    /\ LET r == hist.rel
       IN  CASE io = "ok" ->
                  /\ md5File' = [md5File EXCEPT ![r] = File(Digest(md5_input(catFile[r])))]
                  /\ pc' = "ret"
                  /\ hist' = [hist EXCEPT !.state = "completed", !.log = Append(@, "md5")]
                  /\ mainHist' = [mainHist EXCEPT !.prev = Summary(hist)]
             [] OTHER ->
                  /\ Abort("md5-failed")
                  /\ UNCHANGED md5File
    /\ UNCHANGED <<pkgs, catFile, zips, published, force, dirs, idx, root, changed,
                   found_ids, remaining, runs, edits>>

\* for release in dirs: the next Generator, or the end of main()
NextRelease ==
    /\ pc = "ret"
    /\ idx < Len(dirs)
    /\ idx' = idx + 1
    /\ pc' = "gen"
    /\ UNCHANGED <<pkgs, catFile, md5File, zips, published, force, dirs, root, changed,
                   found_ids, remaining, hist, mainHist, runs, edits, faults>>

\* the process ends, normally or with a traceback; its memory is gone
ProcessExit ==
    /\ \/ pc \in {"end", "raised"}
       \/ pc = "ret" /\ idx = Len(dirs)
    /\ pc' = "idle"
    /\ force' = FALSE
    /\ dirs' = <<>>
    /\ idx' = 0
    /\ root' = <<>>
    /\ changed' = FALSE
    /\ found_ids' = {}
    /\ remaining' = {}
    /\ hist' = NoHist
    /\ mainHist' = [exit |-> "none", started |-> {}, prev |-> mainHist.prev]
    /\ UNCHANGED <<pkgs, catFile, md5File, zips, published, runs, edits, faults>>

Generator ==
    \/ LoadCatalog
    \/ \E d \in AllDirs, zipIO \in IOOutcomes, assetIO \in CopyOutcomes :
          ProcessPackage(d, zipIO, assetIO)
    \/ \E io \in IOOutcomes : Persist(io)
    \/ \E io \in CopyOutcomes : generate_md5(io)
    \/ ProcessExit

Next ==
    \/ \E f \in BOOLEAN : main(<<"omega">>, f)
    \/ \E d \in Dirs, m \in DirStates : EditPackage(d, m)
    \/ Generator

Spec == Init /\ [][Next]_vars

\* main() over two release directories (and a name that is no directory)
InitMain ==
    /\ Init
    /\ pkgs["omega"]["a"] \in {Manifest("a", "1"), Manifest("b", "1")}

NextMain ==
    \/ \E f \in BOOLEAN : main(<<"omega", "piers">>, f)
    \/ main(<<"repo">>, FALSE)
    \/ Generator
    \/ NextRelease

SpecMain == InitMain /\ [][NextMain]_vars

\* ------------------------------------------------------------------ claims
Range(q) == {q[i] : i \in 1..Len(q)}

\* the package directory d of the release of the current run
Pkg(d) == dir_content(pkgs[hist.rel], d)

\* the archive path of the manifest m
KeyOf(m) == <<m.id, Str(m.version)>>

\* the loop body is being executed for directory d in this step
Processing(d) == pc = "scan" /\ d \in remaining /\ d \notin remaining'

\* the Generator run of hist.rel came to its end without an exception
Completed == pc = "ret" /\ hist.state = "completed"

\* some entry of catalog c has the id of manifest m and the same version string
HasSameVersion(c, m) ==
    \E i \in 1..Len(c) : c[i].id = m.id /\ c[i].version = m.version

\* C1: a package whose version string equals the version of the catalog entry
\* with its id is skipped when force is off: the catalog, the archives and the
\* published files stay as they are and _create_zip is not called for it.
C1_SkipWhenUnchanged ==
    [][\A d \in Dirs :
          ( /\ Processing(d)
            /\ Pkg(d).kind = "addon"
            /\ Pkg(d).id \in Ids
            /\ HasSameVersion(root, Pkg(d))
            /\ ~force )
          => /\ hist'.decided[d] = "Skip"
             /\ root' = root
             /\ zips' = zips
             /\ published' = published
             /\ changed' = changed
             /\ d \notin hist'.zipCalls
             /\ d \notin hist'.zipWrites]_vars

C1_Witness ==
    \E d \in Dirs :
        /\ Completed
        /\ hist.decided[d] = "Skip"
        /\ Pkg(d).id \in Ids
        /\ HasSameVersion(hist.startCat.content, Pkg(d))
        /\ hist.startZips[KeyOf(Pkg(d))] \notin {Absent, Corrupt}
        /\ zips[hist.rel] = hist.startZips

\* C2: with force on, a package that has a catalog entry is decided Replace even
\* when its version is unchanged, and _create_zip does not take the
\* skip-existing path: unless the write itself raises, the archive is written
\* anew although it existed.
C2_ForceReplaces ==
    [][\A d \in Dirs :
          ( /\ Processing(d)
            /\ Pkg(d).kind = "addon"
            /\ Pkg(d).id \in Ids
            /\ \E i \in 1..Len(root) : root[i].id = Pkg(d).id
            /\ force )
          => /\ hist'.decided[d] = "Replace"
             /\ d \in hist'.zipCalls
             /\ d \notin hist'.zipSkips
             /\ \/ d \in hist'.raised
                \/ /\ d \in hist'.zipWrites
                   /\ zips'[hist.rel][KeyOf(Pkg(d))] = d]_vars

C2_Witness ==
    \E d \in Dirs :
        /\ Completed
        /\ force
        /\ hist.decided[d] = "Replace"
        /\ HasSameVersion(hist.startCat.content, Pkg(d))
        /\ hist.startZips[KeyOf(Pkg(d))] \notin {Absent, d}
        /\ d \in hist.zipWrites
        /\ d \notin hist.raised
        /\ zips[hist.rel][KeyOf(Pkg(d))] = d

\* the entries of catalog c that carry the id i
EntriesOf(c, i) == {n \in 1..Len(c) : c[n].id = i}

\* d was decided Insert, or Replace because the version string differs
NewVersion(d) ==
    /\ Pkg(d).kind = "addon"
    /\ Pkg(d).id \in Ids
    /\ hist.decided[d] \in {"Insert", "Replace"}
    /\ d \notin hist.sameVersion

\* the catalog holds exactly one entry for the package of d, at its version;
\* its archive exists; every archive that was there before the run still is
Published(d) ==
    LET c == catFile[hist.rel]
    IN  /\ c.state = "ok"
        /\ Cardinality(EntriesOf(c.content, Pkg(d).id)) = 1
        /\ \A n \in EntriesOf(c.content, Pkg(d).id) : c.content[n].version = Pkg(d).version
        /\ zips[hist.rel][KeyOf(Pkg(d))] # Absent
        /\ \A k \in ZipKeys : hist.startZips[k] # Absent => zips[hist.rel][k] # Absent

\* a directory scanned after d in this run declares the id of d with another version
LaterSameId(d) ==
    \E i, j \in 1..Len(hist.order) :
        /\ i < j
        /\ hist.order[i] = d
        /\ Pkg(hist.order[j]).kind = "addon"
        /\ Pkg(hist.order[j]).id = Pkg(d).id
        /\ Pkg(hist.order[j]).version # Pkg(d).version

StrictlySorted(c) ==
    \A i, j \in 1..Len(c) : i < j => Rank(SortKey(c[i])) < Rank(SortKey(c[j]))

\* C4: a persisted catalog is strictly sorted by id and holds no id twice,
\* whatever was scanned and whatever raised.
C4_SortedUnique ==
    \A r \in Releases :
        catFile[r].state = "ok" =>
            /\ StrictlySorted(catFile[r].content)
            /\ \A i, j \in 1..Len(catFile[r].content) :
                   i # j => catFile[r].content[i].id # catFile[r].content[j].id

\* C5: while a run has decided no Insert and no Replace, zips/addons.xml and
\* zips/addons.xml.md5 are what they were when the run began, and neither
\* has been written.
C5_NoWriteWithoutChange ==
    ( /\ hist.state # "none"
      /\ \A d \in Dirs : hist.decided[d] \notin {"Insert", "Replace"} )
    => /\ catFile[hist.rel] = hist.startCat
       /\ md5File[hist.rel] = hist.startMd5
       /\ "catalog" \notin Range(hist.log)
       /\ "md5" \notin Range(hist.log)

C5_Witness ==
    /\ Completed
    /\ \E d \in Dirs : hist.decided[d] = "Skip"
    /\ \A d \in Dirs : hist.decided[d] \notin {"Insert", "Replace"}
    /\ hist.startCat.state = "ok"

\* C6: a package whose manifest lacks id or version is skipped with an error:
\* its processing raises, no archive is written for it and the persisted
\* catalog has no entry of it.
C6_MissingFieldSkipped ==
    Completed =>
        \A d \in Dirs :
            (Pkg(d).kind = "addon" /\ (Pkg(d).id = NoAttr \/ Pkg(d).version = NoAttr))
            => /\ d \in hist.raised
               /\ d \notin hist.zipWrites
               /\ \A n \in 1..Len(catFile[hist.rel].content) :
                      ~ ( /\ catFile[hist.rel].content[n].id = Pkg(d).id
                          /\ catFile[hist.rel].content[n].version = Pkg(d).version )

\* C7: an exception of the loop body never ends the run: the process raises
\* only from the catalog load, the catalog write or the md5 write; the loop
\* visits every scanned directory, and the persist step is reached only after
\* all of them.
C7_PackageErrorsIsolated ==
    /\ pc = "raised" => hist.state \in {"load-failed", "write-failed", "md5-failed"}
    /\ pc = "scan" => remaining = Scanned(hist.rel) \ Range(hist.order)
    /\ (pc \in {"md5", "ret"} \/ hist.state \in {"write-failed", "md5-failed"})
           => Range(hist.order) = Scanned(hist.rel)

C7_Witness ==
    /\ Completed
    /\ \E i, j \in 1..Len(hist.order) :
          /\ i < j
          /\ hist.order[i] \in hist.raised
          /\ hist.decided[hist.order[j]] \in {"Insert", "Replace"}
          /\ hist.order[j] \notin hist.raised
    /\ "catalog" \in Range(hist.log)

\* C8: when main() ends, normally or by an exception of one Generator, a
\* Generator has been run for every release directory of the list.
C8_OtherReleasesStillRun ==
    (pc \in {"raised", "end"} \/ (pc = "ret" /\ idx = Len(dirs)))
        => Range(dirs) \subseteq mainHist.started

\* the checksum file holds the digest of the catalog file (or neither exists)
Matched(c, m) ==
    \/ c.state = Absent /\ m.state = Absent
    \/ c.state = "ok" /\ m = File(Digest(c.content))

\* C9: the md5 is written only in a run that dirtied the catalog and is the
\* digest of the catalog that run persisted; a completed run that began with
\* a matching checksum ends with a matching checksum.
C9_ChecksumMatches ==
    /\ "md5" \in Range(hist.log) =>
          /\ changed
          /\ "catalog" \in Range(hist.log)
          /\ catFile[hist.rel] = File(root)
          /\ md5File[hist.rel] = File(Digest(root))
    /\ (Completed /\ Matched(hist.startCat, hist.startMd5))
          => Matched(catFile[hist.rel], md5File[hist.rel])

C9_Witness ==
    /\ Completed
    /\ "md5" \in Range(hist.log)
    /\ hist.startCat.state = "ok"
    /\ Matched(hist.startCat, hist.startMd5)
    /\ catFile[hist.rel] # hist.startCat
    /\ md5File[hist.rel] # hist.startMd5

\* C10: when _create_zip is called for a package whose archive file exists and
\* force is off, the archive is left as it is, whatever the decision was.
C10_ExistingArchiveKept ==
    [][\A d \in Dirs :
          ( /\ Processing(d)
            /\ d \in hist'.zipCalls
            /\ Pkg(d).id \in Ids
            /\ zips[hist.rel][KeyOf(Pkg(d))] # Absent
            /\ ~force )
          => /\ zips' = zips
             /\ d \in hist'.zipSkips
             /\ d \notin hist'.zipWrites]_vars

C10_Witness ==
    \E d \in Dirs :
        /\ Completed
        /\ ~force
        /\ hist.decided[d] \in {"Insert", "Replace"}
        /\ d \in hist.zipSkips
        /\ zips[hist.rel][KeyOf(Pkg(d))] = hist.startZips[KeyOf(Pkg(d))]

\* the archives on disk that hold entries, as <<release, key>>
Archives == {rk \in Releases \X ZipKeys : zips[rk[1]][rk[2]] \in AllDirs}

\* C11: every entry of every archive is rooted at the id of the manifest the
\* archive was written for, also when the directory is named otherwise
C11_EntriesRootedAtId ==
    \A rk \in Archives :
        \A e \in archive_entries(rk[1], zips[rk[1]][rk[2]]) : e[1] = rk[2][1]

\* the files the specification keeps: no reserved segment and no glob match in
\* the path relative to the package directory
KeptByRelativePath == {f \in CleanFiles : ~should_ignore(f)}

\* C12: an archive holds exactly the files whose path relative to the package
\* has no reserved segment and matches no glob, wherever the release root is
C12_IgnoreByRelativePath ==
    \A rk \in Archives :
        archive_entries(rk[1], zips[rk[1]][rk[2]])
            = {archive_name(zips[rk[1]][rk[2]], f) : f \in KeptByRelativePath}

\* the directory the loop body was last executed for
LastProcessed == IF hist.order = <<>> THEN "" ELSE hist.order[Len(hist.order)]

\* the declared assets of d that are in the directory, in declaration order
PresentAssets(d) ==
    SelectSeq(declared_assets(d), LAMBDA f : f \in CleanFiles)

C14_OnlyCandidatesScanned ==
    hist.state # "none" =>
        /\ Range(hist.order) \cup remaining \subseteq AllDirs \ Excluded
        /\ pc \in {"md5", "ret"} => Range(hist.order) = AllDirs \ Excluded
        /\ \A d \in AllDirs :
              d \in Excluded \/ Pkg(d).kind = "nomanifest" =>
                 /\ hist.decided[d] \in {"none", "nomanifest"}
                 /\ d \notin hist.raised
                 /\ d \notin hist.zipCalls \cup hist.assetCalls
                 /\ \A k \in ZipKeys : zips[hist.rel][k] = d => hist.startZips[k] = d

\* a run completed that inserted a package, passed a directory without a
\* manifest, and left alone zips and .git, which both hold a manifest
C14_Witness ==
    /\ Completed
    /\ \E d \in Dirs : hist.decided[d] = "nomanifest"
    /\ \E d \in Dirs : hist.decided[d] = "Insert" /\ d \notin hist.raised
    /\ \A d \in Excluded : Pkg(d).kind = "addon" /\ hist.decided[d] = "none"

\* positions of event x in the log of the run
At(x) == {i \in 1..Len(hist.log) : hist.log[i] = x}

\* C15: in one run the catalog is loaded once, first; it is written at most
\* once, after every scanned directory was processed and after every archive
\* write and asset copy; the checksum is written only after the catalog
C15_CatalogWrittenOnceAtEnd ==
    hist.state \notin {"none", "load-failed"} =>
        /\ At("load") = {1}
        /\ Cardinality(At("catalog")) <= 1
        /\ Cardinality(At("md5")) <= 1
        /\ \A c \in At("catalog") :
              /\ \A i \in At("zip") \cup At("assets") : i < c
              /\ remaining = {}
              /\ Range(hist.order) = AllDirs \ Excluded
        /\ \A m \in At("md5") : \E c \in At("catalog") : c < m
        /\ At("catalog") = {} /\ hist.state # "write-failed"
              => catFile[hist.rel] = hist.startCat
        /\ At("md5") = {} => md5File[hist.rel] = hist.startMd5

\* a completed run that wrote two archives, copied assets twice, then wrote the
\* catalog and last the checksum
C15_Witness ==
    /\ Completed
    /\ Cardinality(At("zip")) = 2
    /\ Cardinality(At("assets")) = 2
    /\ At("catalog") = {Len(hist.log) - 1}
    /\ At("md5") = {Len(hist.log)}
    /\ catFile[hist.rel] # hist.startCat

\* C16: a completed run in which a package was decided Insert or Replace and
\* reached the asset copy has written the catalog with that package's entry and
\* has written the checksum, also when the asset copy of the package failed
C16_DecisionMarksDirty ==
    Completed =>
        \A d \in hist.assetCalls :
            hist.decided[d] \in {"Insert", "Replace"} =>
                /\ At("catalog") # {}
                /\ At("md5") # {}
                /\ HasSameVersion(catFile[hist.rel].content, Pkg(d)) \/ LaterSameId(d)

\* C17: starting from an empty output directory, after every completed run
\* every entry (id, version) of the catalog on disk has its archive
\* zips/<id>/<id>-<version>.zip on disk
C17_EntriesHaveArchives ==
    Completed =>
        LET c == catFile[hist.rel]
        IN  c.state = "ok" =>
                \A i \in 1..Len(c.content) :
                    c.content[i].id \in Ids =>
                        zips[hist.rel][KeyOf(c.content[i])] # Absent

\* the entries of catalog c with id i, in document order
EntriesWithId(c, i) == SelectSeq(c, LAMBDA e : e.id = i)

\* C18: when the processing of a package raised after the decision Insert or
\* Replace, and no other directory declares its id, the catalog on disk after
\* the completed run holds for that id exactly what it held before the run
C18_FailedPackageLeftAsBefore ==
    Completed =>
        \A d \in hist.raised :
            /\ hist.decided[d] \in {"Insert", "Replace"}
            /\ Pkg(d).id \in Ids
            /\ \A e \in Dirs \ {d} : Pkg(e).kind = "addon" => Pkg(e).id # Pkg(d).id
            => EntriesWithId(catFile[hist.rel].content, Pkg(d).id)
                 = EntriesWithId(hist.startCat.content, Pkg(d).id)

\* the run decided no Insert and no Replace, wrote no archive, and left the
\* catalog and the checksum unwritten
NoWork ==
    /\ \A d \in AllDirs : hist.decided[d] \notin {"Insert", "Replace"}
    /\ hist.zipWrites = {}
    /\ At("catalog") = {} /\ At("md5") = {}
    /\ catFile[hist.rel] = hist.startCat
    /\ md5File[hist.rel] = hist.startMd5

\* this run without force follows a completed run of the same release, and no
\* package directory was changed in between
Rerun == Completed /\ ~force /\ hist.prev.rel = hist.rel

\* two scanned directories declare the same id with different version strings
Conflict ==
    \E d, e \in AllDirs \ Excluded :
        /\ Pkg(d).kind = "addon" /\ Pkg(e).kind = "addon"
        /\ Pkg(d).id = Pkg(e).id /\ Pkg(d).version # Pkg(e).version

\* every manifest the run scanned declares an id and a version
AllDeclared ==
    \A d \in AllDirs \ Excluded :
        Pkg(d).kind = "addon" => Pkg(d).id \in Ids /\ Pkg(d).version \in Versions

ScannedIds == {Pkg(d).id : d \in {e \in AllDirs \ Excluded : Pkg(e).kind = "addon"}}

\* C20: after a completed run the catalog on disk holds, for every id that no
\* scanned package declares, the entries it held before the run, and no id
\* that had an entry before the run is without one
C20_UnscannedEntriesKept ==
    Completed =>
        \A i \in Ids \cup {NoAttr} :
            /\ i \notin ScannedIds =>
                  EntriesWithId(catFile[hist.rel].content, i)
                      = EntriesWithId(hist.startCat.content, i)
            /\ EntriesWithId(hist.startCat.content, i) # <<>> =>
                  EntriesWithId(catFile[hist.rel].content, i) # <<>>

\* a run that wrote the catalog while the package of an entry was gone
C20_Witness ==
    /\ Completed
    /\ At("catalog") # {}
    /\ \E i \in Ids :
          /\ i \notin ScannedIds
          /\ EntriesWithId(hist.startCat.content, i) # <<>>
          /\ EntriesWithId(catFile[hist.rel].content, i)
                = EntriesWithId(hist.startCat.content, i)

====
